---- MODULE Spec2Model ----
(***************************************************************************)
(* CRUD API over three SQLite tables (users, products, orders), main.py.   *)
(*                                                                         *)
(* A write handler (POST, PUT, DELETE) is two steps: the request arrives,  *)
(* its body is validated into the pydantic model and the handler builds    *)
(* its statement and suspends at `await database.execute(query)`; then the *)
(* statement runs atomically on the store and the handler returns.  Any    *)
(* number of handlers (up to MaxInflight) may be suspended at once and the *)
(* store runs their statements in any order.  A read handler is one step:  *)
(* its only effect is the single SELECT.  Every request arrives at its own *)
(* clock tick, and MaxClock requests arrive in all.                        *)
(***************************************************************************)
EXTENDS Integers, Sequences, FiniteSets, TLC

\* ------------------------------------------------------------------ bounds
\* Number of requests the model lets arrive (one per clock tick).
MaxClock == 2
\* Number of write handlers suspended at `await database.execute` at once.
MaxInflight == 2
\* Ids addressed by GET/PUT/DELETE paths are 1..MaxId (creates assign
\* further ids, so rows exist that no path addresses).
MaxId == 2

\* ------------------------------------------------------- program constants
FirstNameMaxLength == 50
LastNameMaxLength == 150
EmailMaxLength == 150
PasswordMinLength == 6
NameMaxLength == 100
DescriptionMaxLength == 1000
PriceGt == 0
\* Wall-clock time at which the module is imported (class bodies run then);
\* requests arrive at times ImportTime + 1, ImportTime + 2, ...
ImportTime == 0

Entities == {"users", "products", "orders"}
PathIds == 1..MaxId

\* ------------------------------------------------------------ value model
\* A str value: n copies of the character ch.  len(s) is Python's len.
Str(c, k) == [ch |-> c, n |-> k]
len(s) == s.n

\* A datetime value: t whole seconds, us microseconds, tz the UTC offset
\* ("naive" when tzinfo is None).
Datetime(t, us, tz) == [t |-> t, us |-> us, tz |-> tz]

\* datetime.now() evaluated when the clock reads c: a naive local time.
datetime_now(c) == Datetime(c, 0, "naive")

\* ------------------------------------------------------- pydantic models
NewUserFields == {"first_name", "last_name", "email", "password"}
NewProductFields == {"name", "description", "price"}
NewOrderFields == {"user_id", "product_id", "date", "status"}

\* The fields of the input shape of each entity.
InputShape(e) ==
    CASE e = "users" -> NewUserFields
      [] e = "products" -> NewProductFields
      [] e = "orders" -> NewOrderFields

\* Field(default=datetime.now()): the argument is evaluated once, when the
\* class body of NewOrder runs at import.
NewOrderDateDefault == datetime_now(ImportTime)
NewOrderStatusDefault == "created"

\* The declared defaults of a model, as a record over the defaulted fields.
Defaults(e) ==
    IF e = "orders"
    THEN [date |-> NewOrderDateDefault, status |-> NewOrderStatusDefault]
    ELSE <<>>

DefaultedFields(e) == IF e = "orders" THEN {"date", "status"} ELSE {}

RequiredFields(e) == InputShape(e) \ DefaultedFields(e)

Missing(e, body) ==
    {[loc |-> f, type |-> "missing"] : f \in RequiredFields(e) \ DOMAIN body}

TooLong(body, f, max) ==
    IF f \in DOMAIN body /\ len(body[f]) > max
    THEN {[loc |-> f, type |-> "string_too_long"]} ELSE {}

TooShort(body, f, min) ==
    IF f \in DOMAIN body /\ len(body[f]) < min
    THEN {[loc |-> f, type |-> "string_too_short"]} ELSE {}

\* Mutant: Field(ge=...) in place of Field(gt=...).
NotGreaterEqual(body, f, bound) ==
    IF f \in DOMAIN body /\ ~(body[f] >= bound)
    THEN {[loc |-> f, type |-> "greater_than"]} ELSE {}

NotGreaterThan(body, f, bound) ==
    IF f \in DOMAIN body /\ ~(body[f] > bound)
    THEN {[loc |-> f, type |-> "greater_than"]} ELSE {}

NewUserErrors(body) ==
    Missing("users", body)
    \cup TooLong(body, "first_name", FirstNameMaxLength)
    \cup TooLong(body, "last_name", LastNameMaxLength)
    \cup TooLong(body, "email", EmailMaxLength)
    \cup TooShort(body, "password", PasswordMinLength)

NewProductErrors(body) ==
    Missing("products", body)
    \cup TooLong(body, "name", NameMaxLength)
    \cup TooLong(body, "description", DescriptionMaxLength)
    \cup NotGreaterThan(body, "price", PriceGt)

NewOrderErrors(body) == Missing("orders", body)

\* The validation errors of a request body against the entity's input model
\* (the 422 detail); {} when the body is valid.
ValidationErrors(e, body) ==
    CASE e = "users" -> NewUserErrors(body)
      [] e = "products" -> NewProductErrors(body)
      [] e = "orders" -> NewOrderErrors(body)

\* Mutant: model_dump(exclude_unset=True), the supplied fields only.
model_dump_exclude_unset(e, body) == body

\* model.model_dump() of the model validated from body: every field of the
\* input shape, the supplied value or else the declared default.
model_dump(e, body) ==
    [f \in DOMAIN body \cup DefaultedFields(e) |->
        IF f \in DOMAIN body THEN body[f] ELSE Defaults(e)[f]]

\* ------------------------------------------------------------- the store
\* Mutant: isoformat(" ", timespec="seconds"), the fraction never printed.
adapt_datetime_seconds(d) ==
    [secs |-> d.t, sep |-> " ", frac |-> <<>>,
     offset |-> IF d.tz = "naive" THEN <<>> ELSE <<d.tz>>]

\* sqlite3's adapter for datetime parameters, val.isoformat(" "): the
\* fraction is printed only when microsecond # 0, the offset only when the
\* value is aware.  orders.date is a String column, so the text is stored.
adapt_datetime(d) ==
    [secs |-> d.t, sep |-> " ",
     frac |-> IF d.us = 0 THEN <<>> ELSE <<d.us>>,
     offset |-> IF d.tz = "naive" THEN <<>> ELSE <<d.tz>>]

\* pydantic's parse of an ISO 8601 text into a datetime.
parse_datetime(s) ==
    Datetime(s.secs,
             IF s.frac = <<>> THEN 0 ELSE s.frac[1],
             IF s.offset = <<>> THEN "naive" ELSE s.offset[1])

IsText(v) == "sep" \in DOMAIN v

\* A bound parameter as the store keeps it in its column.
Bind(f, v) == IF f = "date" THEN adapt_datetime(v) ELSE v

Max(S) == CHOOSE x \in S : \A y \in S : y <= x

RowIds(table) == {r.id : r \in table}

\* Mutant: the largest rowid itself, not one more.
NextRowid_max(table) == IF table = {} THEN 1 ELSE Max(RowIds(table))

\* The rowid SQLite gives an INTEGER PRIMARY KEY row inserted without an id:
\* one more than the largest rowid in the table, 1 for an empty table.
NextRowid(table) == IF table = {} THEN 1 ELSE Max(RowIds(table)) + 1

\* table.insert().values(**values)
Insert(table, values) ==
    table \cup {[f \in DOMAIN values \cup {"id"} |->
                    IF f = "id" THEN NextRowid(table) ELSE Bind(f, values[f])]}

\* Mutant: an upsert, the row is inserted when no row has the id.
Update_upsert(table, id, values) ==
    IF id \in RowIds(table)
    THEN {IF r.id = id
          THEN [f \in DOMAIN r |->
                   IF f \in DOMAIN values THEN Bind(f, values[f]) ELSE r[f]]
          ELSE r : r \in table}
    ELSE table \cup {[f \in DOMAIN values \cup {"id"} |->
                         IF f = "id" THEN id ELSE Bind(f, values[f])]}

\* Mutant: the statement sets the columns one by one and misses the last
\* column of each table.
Update_partial(table, id, values) ==
    {IF r.id = id
     THEN [f \in DOMAIN r |->
              IF f \in DOMAIN values \ {"password", "price", "status"}
              THEN Bind(f, values[f]) ELSE r[f]]
     ELSE r : r \in table}

\* table.update().where(table.c.id == id).values(**values)
Update(table, id, values) ==
    {IF r.id = id
     THEN [f \in DOMAIN r |->
              IF f \in DOMAIN values THEN Bind(f, values[f]) ELSE r[f]]
     ELSE r : r \in table}

\* Mutant: table.delete() without its where clause.
Delete_all(table, id) == {}

\* table.delete().where(table.c.id == id)
Delete(table, id) == {r \in table : r.id # id}

\* table.select().where(table.c.id == id), fetch_one: the row or none.
Select(table, id) == {r \in table : r.id = id}

\* Mutant: the foreign keys of orders declared with ON DELETE CASCADE and
\* enforced.
database_execute_cascade(db, q) ==
    LET own == [db EXCEPT ![q.entity] =
                   CASE q.op = "create" -> Insert(db[q.entity], q.values)
                     [] q.op = "update" -> Update(db[q.entity], q.id, q.values)
                     [] q.op = "delete" -> Delete(db[q.entity], q.id)]
    IN IF q.op = "delete" /\ q.entity = "users"
       THEN [own EXCEPT !["orders"] = {o \in @ : o.user_id # q.id}]
       ELSE IF q.op = "delete" /\ q.entity = "products"
       THEN [own EXCEPT !["orders"] = {o \in @ : o.product_id # q.id}]
       ELSE own

\* What `await database.execute(query)` leaves in the store: one statement
\* on the one table the query was built from, applied atomically.
database_execute(db, q) ==
    [db EXCEPT ![q.entity] =
        CASE q.op = "create" -> Insert(db[q.entity], q.values)
          [] q.op = "update" -> Update(db[q.entity], q.id, q.values)
          [] q.op = "delete" -> Delete(db[q.entity], q.id)]

\* What `await database.execute(query)` returns to a create handler: the
\* rowid of the inserted row.
last_id(db, q) == NextRowid(db[q.entity])

\* ------------------------------------------------------------- responses
\* response_model=...: the returned mapping validated into the stored shape,
\* which parses a textual date into a datetime.
response_model(content) ==
    [f \in DOMAIN content |->
        IF f = "date" /\ IsText(content[f])
        THEN parse_datetime(content[f]) ELSE content[f]]

\* {**model.model_dump(), 'id': id}
WithId(values, id) ==
    [f \in DOMAIN values \cup {"id"} |-> IF f = "id" THEN id ELSE values[f]]

NotFound == [error |-> "ID not found"]

DeleteMessage(e) ==
    CASE e = "users" -> "User deleted"
      [] e = "products" -> "Product deleted"
      [] e = "orders" -> "Order deleted"

\* ----------------------------------------------------------- the inputs
UA == [first_name |-> Str("a", FirstNameMaxLength),
       last_name |-> Str("b", LastNameMaxLength),
       email |-> Str("c", EmailMaxLength),
       password |-> Str("p", PasswordMinLength)]
UB == [first_name |-> Str("x", 1), last_name |-> Str("y", 2),
       email |-> Str("z", 3), password |-> Str("q", PasswordMinLength + 1)]

Without(body, f) == [g \in DOMAIN body \ {f} |-> body[g]]

UserBodies ==
    {UA, UB,
     [UA EXCEPT !.first_name = Str("a", FirstNameMaxLength + 1)],
     [UA EXCEPT !.last_name = Str("b", LastNameMaxLength + 1)],
     [UA EXCEPT !.email = Str("c", EmailMaxLength + 1)],
     [UA EXCEPT !.password = Str("p", PasswordMinLength - 1)],
     Without(UB, "password")}

PA == [name |-> Str("n", NameMaxLength),
       description |-> Str("d", DescriptionMaxLength),
       price |-> 999]
PB == [name |-> Str("w", 6), description |-> Str("v", 8), price |-> 1]

ProductBodies ==
    {PA, PB,
     [PA EXCEPT !.name = Str("n", NameMaxLength + 1)],
     [PA EXCEPT !.description = Str("d", DescriptionMaxLength + 1)],
     [PB EXCEPT !.price = PriceGt],
     [PB EXCEPT !.price = PriceGt - 1],
     Without(PA, "price")}

\* OA leaves date and status to their defaults; OB gives an aware date with
\* microseconds.
OA == [user_id |-> 1, product_id |-> 2]
OB == [user_id |-> 1, product_id |-> 1,
       date |-> Datetime(9, 5, "+00:00"), status |-> "shipped"]

OrderBodies == {OA, OB, Without(OA, "user_id"), Without(OB, "product_id")}

NoBody == <<>>

\* ---------------------------------------------------------------- state
VARIABLES
    database,   \* the SQLite file: database[e] is the set of rows of table e
    inflight,   \* write handlers suspended at `await database.execute`, in
                \* order of arrival
    now,        \* the clock: the arrival time of the latest request
    last,       \* the response the latest step sent, with the request it
                \* answers; "none" when that step sent no response
    hist        \* history: per table and id, the statements this process
                \* has run on that id, oldest first (what the claims about
                \* sequences of requests read)

vars == <<database, inflight, now, last, hist>>

\* Within the horizon no row sees more than MaxClock statements; a table
\* holds at most the row it started with and MaxClock created ones.
HistLen == MaxClock
Ids == 1..(IF MaxId > MaxClock + 1 THEN MaxId ELSE MaxClock + 1)

\* A response: the request it answers (handler, table, path id, the fields
\* and the body the client sent, as validated when valid), status and body.
Response(op, e, id, given, request, status, body) ==
    [op |-> op, entity |-> e, id |-> id, given |-> given,
     request |-> request, status |-> status, body |-> body]

NoResponse == Response("none", "none", 0, {}, <<>>, 0, <<>>)

\* mydatabase.db outlives the process and create_all keeps existing tables:
\* the store starts empty (first run) or as an earlier run left it, here
\* after one POST of UA, of PA and of OB.
InitialDatabases ==
    {[e \in Entities |-> {}],
     [users |-> Insert({}, UA), products |-> Insert({}, PA),
      orders |-> Insert({}, OB)]}

Init ==
    /\ database \in InitialDatabases
    /\ inflight = <<>>
    /\ now = ImportTime
    /\ last = NoResponse
    /\ hist = [e \in Entities |-> [i \in Ids |-> <<>>]]

\* A request arrives: the clock moves to its arrival time.
Arrive ==
    /\ now < ImportTime + MaxClock
    /\ now' = now + 1

\* --------------------------------------------------------- read handlers
\* read_all_users / read_all_products / read_all_orders
ReadAll(e) ==
    /\ Arrive
    /\ last' = Response("read_all", e, 0, {}, <<>>, 200,
                        [items |-> {response_model(r) : r \in database[e]}])
    /\ UNCHANGED <<database, inflight, hist>>

\* Mutant: the handler returns fetch_one's result without testing it, and a
\* missing row fails response validation.
ReadOneResponse_unchecked(db, e, id) ==
    LET found == Select(db[e], id) IN
    IF found # {}
    THEN Response("read", e, id, {}, <<>>, 200,
                  response_model(CHOOSE r \in found : TRUE))
    ELSE Response("read", e, id, {}, <<>>, 500, <<>>)

\* The response of read_user / read_product / read_order_ on store db.
ReadOneResponse(db, e, id) ==
    LET found == Select(db[e], id) IN
    IF found # {}
    THEN Response("read", e, id, {}, <<>>, 200,
                  response_model(CHOOSE r \in found : TRUE))
    ELSE Response("read", e, id, {}, <<>>, 404, NotFound)

ReadOne(e, id) ==
    /\ Arrive
    /\ last' = ReadOneResponse(database, e, id)
    /\ UNCHANGED <<database, inflight, hist>>

\* -------------------------------------------------------- write handlers
\* A request with a body that fails validation is answered 422 before the
\* handler runs; otherwise the handler builds its statement from
\* model_dump() and suspends at `await database.execute(query)`.
Submit(op, e, id, body) ==
    /\ Arrive
    /\ IF op # "delete" /\ ValidationErrors(e, body) # {}
       THEN /\ last' = Response(op, e, id, DOMAIN body, body, 422,
                                [detail |-> ValidationErrors(e, body)])
            /\ UNCHANGED <<database, inflight, hist>>
       ELSE /\ Len(inflight) < MaxInflight
            /\ inflight' = Append(inflight,
                   [op |-> op, entity |-> e, id |-> id,
                    given |-> DOMAIN body,
                    values |-> IF op = "delete" THEN body
                               ELSE model_dump(e, body),
                    overtaken |-> FALSE])
            /\ last' = NoResponse
            /\ UNCHANGED <<database, hist>>

\* The body of the handler's return statement.
Returned(db, q) ==
    CASE q.op = "create" -> response_model(WithId(q.values, last_id(db, q)))
      [] q.op = "update" -> response_model(WithId(q.values, q.id))
      [] q.op = "delete" -> [message |-> DeleteMessage(q.entity)]

\* The id the statement of q is about: the new rowid for an insert.
Target(db, q) == IF q.op = "create" THEN last_id(db, q) ELSE q.id

Remember(h, entry) ==
    IF Len(h) < HistLen THEN Append(h, entry) ELSE Append(Tail(h), entry)

\* The pending requests once request i has run: those that arrived before
\* it for the same row have been overtaken.
Remaining(i, id) ==
    LET q == inflight[i]
        rest == [j \in 1..Len(inflight) |->
                    IF j < i /\ inflight[j].entity = q.entity
                             /\ inflight[j].id = id
                    THEN [inflight[j] EXCEPT !.overtaken = TRUE]
                    ELSE inflight[j]]
    IN SubSeq(rest, 1, i - 1) \o SubSeq(rest, i + 1, Len(rest))

\* The statement of the i-th suspended handler runs and the handler returns.
\* The history entry keeps what the statement found under its id (before),
\* and the body: the response of a POST, the model_dump() of a PUT.
execute ==
    \E i \in 1..Len(inflight) :
        LET q == inflight[i]
            id == Target(database, q)
        IN /\ database' = database_execute(database, q)
           /\ last' = Response(q.op, q.entity, id, q.given, q.values, 200,
                               Returned(database, q))
           /\ hist' = [hist EXCEPT ![q.entity][id] =
                          Remember(@, [op |-> q.op, given |-> q.given,
                                       overtaken |-> q.overtaken,
                                       before |-> Select(database[q.entity], id),
                                       body |-> IF q.op = "create"
                                                THEN Returned(database, q)
                                                ELSE q.values])]
           /\ inflight' = Remaining(i, id)
           /\ UNCHANGED now

\* ------------------------------------------------------------- handlers
read_all_users == ReadAll("users")
read_user == \E user_id \in PathIds : ReadOne("users", user_id)
read_all_products == ReadAll("products")
read_product == \E product_id \in PathIds : ReadOne("products", product_id)
read_all_orders == ReadAll("orders")
read_order_ == \E order_id \in PathIds : ReadOne("orders", order_id)

create_user == \E user \in UserBodies : Submit("create", "users", 0, user)
create_product ==
    \E product \in ProductBodies : Submit("create", "products", 0, product)
create_order == \E order \in OrderBodies : Submit("create", "orders", 0, order)

update_user ==
    \E user_id \in PathIds, new_user \in UserBodies :
        Submit("update", "users", user_id, new_user)
update_product ==
    \E product_id \in PathIds, new_product \in ProductBodies :
        Submit("update", "products", product_id, new_product)
update_order ==
    \E order_id \in PathIds, new_order \in OrderBodies :
        Submit("update", "orders", order_id, new_order)

delete_user == \E user_id \in PathIds : Submit("delete", "users", user_id, NoBody)
delete_product ==
    \E product_id \in PathIds : Submit("delete", "products", product_id, NoBody)
delete_order ==
    \E order_id \in PathIds : Submit("delete", "orders", order_id, NoBody)

Next ==
    \/ read_all_users \/ read_user
    \/ read_all_products \/ read_product
    \/ read_all_orders \/ read_order_
    \/ create_user \/ create_product \/ create_order
    \/ update_user \/ update_product \/ update_order
    \/ delete_user \/ delete_product \/ delete_order
    \/ execute

Spec == Init /\ [][Next]_vars

\* ---------------------------------------------------------------- claims
Statements(e, id) == hist[e][id]
LastStatement(e, id) == hist[e][id][Len(hist[e][id])]
Touched(e, id) == id \in Ids /\ hist[e][id] # <<>>

\* The row a statement with these values leaves under this id.
Stored(values, id) ==
    [f \in DOMAIN values \cup {"id"} |->
        IF f = "id" THEN id ELSE Bind(f, values[f])]

\* C1: a GET on id k whose latest statement is the POST that returned k
\* answers 200 with a body equal, field by field, to that POST's response
\* (the submitted input, defaults included, plus id k).
C1_CreateThenRead ==
    (last.op = "read" /\ Touched(last.entity, last.id)
        /\ LastStatement(last.entity, last.id).op = "create")
    => (last.status = 200
        /\ last.body = LastStatement(last.entity, last.id).body)

\* C1 witness: an Order posted with an aware date that has microseconds is
\* read back.
C1_Witness ==
    /\ last.op = "read" /\ last.entity = "orders" /\ last.status = 200
    /\ Touched("orders", last.id)
    /\ LastStatement("orders", last.id).op = "create"
    /\ LastStatement("orders", last.id).given = NewOrderFields
    /\ last.body.date.us # 0 /\ last.body.date.tz # "naive"

\* C2: an Order posted without a date gets a date that is not earlier than
\* the arrival of its own request (the time of processing, not a value fixed
\* when the process starts).
C2_DateDefaultIsProcessingTime ==
    [][(/\ Len(inflight') > Len(inflight)
        /\ inflight'[Len(inflight')].op = "create"
        /\ inflight'[Len(inflight')].entity = "orders"
        /\ "date" \notin inflight'[Len(inflight')].given)
       => inflight'[Len(inflight')].values.date.t >= now']_vars

\* C3 as stated: a PUT is applied only to a body that supplies every field
\* of the input shape; a body omitting any of them is answered 422.
C3_PutRequiresFullShape ==
    (last.op = "update" /\ last.given # InputShape(last.entity))
    => last.status = 422

\* C3 amended: a PUT whose body omits a field that has no declared default
\* is answered 422 and changes nothing; an applied PUT (date or status may
\* be omitted) leaves in the row, for every field of the input shape, the
\* supplied value or else the declared default, never the old value.
C3_PutOverwritesEveryField ==
    [][last'.op = "update" =>
        /\ ~(RequiredFields(last'.entity) \subseteq last'.given)
            => (last'.status = 422 /\ database' = database)
        /\ last'.status = 200 =>
            \A r \in Select(database'[last'.entity], last'.id) :
                /\ DOMAIN r = InputShape(last'.entity) \cup {"id"}
                /\ \A f \in InputShape(last'.entity) :
                    r[f] = Bind(f, IF f \in last'.given
                                   THEN last'.body[f]
                                   ELSE Defaults(last'.entity)[f])]_vars

\* C3 witness: a PUT without date and status has run on an Order that held
\* another date and status, and the row now holds the defaults.
C3_Witness ==
    /\ last.op = "update" /\ last.entity = "orders" /\ last.status = 200
    /\ last.given = {"user_id", "product_id"}
    /\ \E old \in LastStatement("orders", last.id).before :
        /\ old.status # NewOrderStatusDefault
        /\ old.date # adapt_datetime(NewOrderDateDefault)
    /\ \E r \in database["orders"] :
        /\ r.id = last.id
        /\ r.status = NewOrderStatusDefault
        /\ r.date = adapt_datetime(NewOrderDateDefault)

\* C4: a PUT on an id with no row answers 200 with the submitted body plus
\* that id, leaves every table as it was, and a GET on that id then answers
\* 404 {"error": "ID not found"}.
C4_PutOnMissingId ==
    [][\A i \in 1..Len(inflight) :
        (/\ inflight[i].op = "update"
         /\ inflight[i].id \notin RowIds(database[inflight[i].entity])
         /\ last'.op = "update"
         /\ last'.entity = inflight[i].entity
         /\ last'.id = inflight[i].id
         /\ inflight' = Remaining(i, inflight[i].id))
        => (/\ last'.status = 200
            /\ last'.body = WithId(inflight[i].values, inflight[i].id)
            /\ database' = database
            /\ ReadOneResponse(database', last'.entity, last'.id).status = 404
            /\ ReadOneResponse(database', last'.entity, last'.id).body
                   = NotFound)]_vars

\* C4 witness: a GET answered 404 on an id whose only statement is a PUT
\* that found no row.
C4_Witness ==
    /\ last.op = "read" /\ last.status = 404 /\ last.body = NotFound
    /\ Len(Statements(last.entity, last.id)) = 1
    /\ Statements(last.entity, last.id)[1].op = "update"
    /\ Statements(last.entity, last.id)[1].before = {}

UniqueIds(db) ==
    \A e \in Entities : \A r1, r2 \in db[e] : r1.id = r2.id => r1 = r2

\* C5: no two rows of a table share an id; a create returns an id no row of
\* the table held and adds exactly one row; a list returns one record per
\* row, with pairwise distinct ids.
C5_PrimaryKeysUnique ==
    [][/\ UniqueIds(database')
       /\ last'.op = "create" /\ last'.status = 200 =>
            /\ last'.id \notin RowIds(database[last'.entity])
            /\ last'.id \in RowIds(database'[last'.entity])
            /\ Cardinality(database'[last'.entity])
                   = Cardinality(database[last'.entity]) + 1
       /\ last'.op = "read_all" =>
            /\ Cardinality(last'.body.items)
                   = Cardinality(database[last'.entity])
            /\ Cardinality({r.id : r \in last'.body.items})
                   = Cardinality(last'.body.items)]_vars

\* C5 witness: a table that holds a row gets another one by a create, and
\* is listed as two records.
C5_Witness ==
    /\ last.op = "read_all"
    /\ Cardinality(last.body.items) = 2
    /\ \E id \in Ids :
        /\ Len(Statements(last.entity, id)) = 1
        /\ Statements(last.entity, id)[1].op = "create"

C7_DeleteIdempotent ==
    [][last'.op = "delete" =>
        /\ last'.status = 200
        /\ last'.body = [message |-> DeleteMessage(last'.entity)]
        /\ database' = [database EXCEPT ![last'.entity] =
                           {r \in @ : r.id # last'.id}]
        /\ (Touched(last'.entity, last'.id)
              /\ LastStatement(last'.entity, last'.id).op = "delete")
            => database' = database]_vars

\* C7 witness: a row was deleted, and its id deleted again.
C7_Witness ==
    /\ last.op = "delete"
    /\ Len(Statements(last.entity, last.id)) = 2
    /\ Statements(last.entity, last.id)[1].op = "delete"
    /\ Statements(last.entity, last.id)[1].before # {}
    /\ Statements(last.entity, last.id)[2].op = "delete"
    /\ Statements(last.entity, last.id)[2].before = {}

\* The constraints as the claim lists them.
BadUser(body) ==
    \/ "password" \in DOMAIN body /\ len(body.password) < 6
    \/ "first_name" \in DOMAIN body /\ len(body.first_name) > 50
    \/ "last_name" \in DOMAIN body /\ len(body.last_name) > 150
    \/ "email" \in DOMAIN body /\ len(body.email) > 150

BadProduct(body) ==
    \/ "price" \in DOMAIN body /\ body.price <= 0
    \/ "name" \in DOMAIN body /\ len(body.name) > 100
    \/ "description" \in DOMAIN body /\ len(body.description) > 1000

ConstraintsHold(db) ==
    /\ \A r \in db["users"] : ~BadUser(r)
    /\ \A r \in db["products"] : ~BadProduct(r)

Bad(e, body) ==
    CASE e = "users" -> BadUser(body)
      [] e = "products" -> BadProduct(body)
      [] e = "orders" -> FALSE

\* C8: a POST or PUT whose body breaks a declared constraint is answered
\* 422, and its statement is neither queued nor run; a step answered 422
\* changes no row and queues nothing; every row in the store satisfies the
\* constraints.
C8_ValidationLeavesStoreUntouched ==
    [][/\ (last'.op \in {"create", "update"}
             /\ Bad(last'.entity, last'.request)) => last'.status = 422
       /\ Len(inflight') > Len(inflight) =>
            (inflight'[Len(inflight')].op = "delete"
             \/ ~Bad(inflight'[Len(inflight')].entity,
                     inflight'[Len(inflight')].values))
       /\ last'.status = 422 => (database' = database /\ inflight' = inflight)
       /\ ConstraintsHold(database')]_vars

\* C8 witness: a PUT answered 422 on a product that is in the table.
C8_Witness ==
    /\ last.op = "update" /\ last.status = 422 /\ last.entity = "products"
    /\ last.id \in RowIds(database["products"])
    /\ [loc |-> "price", type |-> "greater_than"] \in last.body.detail

\* C9: whatever the order in which the statements of concurrent requests
\* run, a row last touched by a DELETE is absent, and a row last touched by
\* a PUT is absent or equal in every field to that PUT's body.
C9_LastWriteWins ==
    \A e \in Entities, id \in Ids :
        Touched(e, id) =>
            /\ LastStatement(e, id).op = "delete" => Select(database[e], id) = {}
            /\ LastStatement(e, id).op = "update" =>
                 Select(database[e], id)
                     \subseteq {Stored(LastStatement(e, id).body, id)}

\* C9 witness: two PUTs with different bodies were suspended together on an
\* existing user; the one that arrived first ran last, and the row is its
\* body.
C9_Witness ==
    /\ Len(Statements("users", 1)) = 2
    /\ Statements("users", 1)[1].op = "update"
    /\ Statements("users", 1)[1].before # {}
    /\ Statements("users", 1)[2].op = "update"
    /\ Statements("users", 1)[2].overtaken
    /\ Statements("users", 1)[1].body # Statements("users", 1)[2].body
    /\ Select(database["users"], 1) = {Stored(Statements("users", 1)[2].body, 1)}

\* C10: a statement changes rows of its own table only; a step that runs no
\* statement changes no table.
C10_NoCrossTableEffect ==
    [][/\ \A e \in Entities : e # last'.entity => database'[e] = database[e]
       /\ (last'.op \notin {"create", "update", "delete"}
             \/ last'.status # 200) => database' = database
       /\ (last'.op = "delete" /\ last'.entity # "orders") =>
            (/\ last'.body = [message |-> DeleteMessage(last'.entity)]
             /\ \A id \in Ids :
                 ReadOneResponse(database', "orders", id)
                     = ReadOneResponse(database, "orders", id))]_vars

\* C10 witness: a user that an order refers to was deleted, and the order
\* is still in its table.
C10_Witness ==
    /\ last.op = "delete" /\ last.entity = "users" /\ last.status = 200
    /\ LastStatement("users", last.id).before # {}
    /\ \E o \in database["orders"] : o.user_id = last.id
====
